---- MODULE Spec2Model ----
(***************************************************************************)
(* Model of slack_connect_ai: the Slack HTTP client (SlackService), the    *)
(* Gemini refinement client (GeminiService, both versions kept in the      *)
(* repository) and the React controller (App, both versions kept in the    *)
(* repository).                                                            *)
(*                                                                         *)
(* Strings that the code only passes around or concatenates (URLs, error   *)
(* messages, message text) are TLA+ strings.  Strings whose characters the *)
(* code inspects (tokens: String.prototype.trim, the scanner's pattern)    *)
(* are sequences of one-character strings.                                 *)
(* A JavaScript null/undefined string is NULL; a nullable object is a      *)
(* sequence of length 0 (null) or 1.                                       *)
(***************************************************************************)
EXTENDS Integers, Sequences, FiniteSets, TLC

NULL == "<null>"

(* JavaScript truthiness of a nullable string: null, undefined and '' are falsy *)
Truthy(s) == s # NULL /\ s # ""

(***************************************************************************)
(* Character strings                                                       *)
(***************************************************************************)
IsSpace(c) == c \in {" ", "\t", "\n"}

RECURSIVE TrimStart(_)
TrimStart(s) == IF s # <<>> /\ IsSpace(Head(s)) THEN TrimStart(Tail(s)) ELSE s

RECURSIVE TrimEnd(_)
TrimEnd(s) ==
    IF s # <<>> /\ IsSpace(s[Len(s)]) THEN TrimEnd(SubSeq(s, 1, Len(s) - 1)) ELSE s

(* String.prototype.trim *)
Trim(s) == TrimEnd(TrimStart(s))

TokA == <<"x", "o", "x", "b", "-", "1">>
TokB == <<"x", "o", "x", "p", "-", "2">>
Blank == <<" ">>
PaddedA == <<" ">> \o TokA \o <<" ", "\n">>

(***************************************************************************)
(* SlackService (src/unnamed/part_002)                                     *)
(***************************************************************************)
SLACK_API_BASE == "https://slack.com/api"
DEFAULT_PROXY == "https://corsproxy.io/?"

ListEndpoint == "conversations.list?types=public_channel,private_channel&limit=100"
PostEndpoint == "chat.postMessage"
AuthEndpoint == "auth.test"

(* constructor(token, proxyUrl = null) *)
SlackService(token, proxyUrl) == [token |-> Trim(token), proxyUrl |-> proxyUrl]

(* the prefix put in front of the path instead of in front of the whole URL *)
finalUrlProxyPath(svc, endpoint) ==
    IF Truthy(svc.proxyUrl)
    THEN SLACK_API_BASE \o "/" \o svc.proxyUrl \o endpoint
    ELSE SLACK_API_BASE \o "/" \o endpoint

(* targetUrl and finalUrl of request() *)
finalUrl(svc, endpoint) ==
    LET targetUrl == SLACK_API_BASE \o "/" \o endpoint
    IN  IF Truthy(svc.proxyUrl) THEN svc.proxyUrl \o targetUrl ELSE targetUrl

NoBody == [channel |-> NULL, text |-> NULL]

(* what request() hands to fetch: the URL, the headers and the options *)
requestInit(svc, endpoint, method, body) ==
    [ url     |-> finalUrl(svc, endpoint),
      auth    |-> [scheme |-> "Bearer", token |-> svc.token],
      ctype   |-> "application/json; charset=utf-8",
      method  |-> method,
      body    |-> body ]

(* ---- what the transport can do with a request ---- *)
Chan1 == [id |-> "C1", name |-> "general", is_private |-> FALSE]
Chan2 == [id |-> "C2", name |-> "secret", is_private |-> TRUE]

NoPayload == [decode |-> "none", ok |-> "missing", error |-> NULL, channels |-> <<>>]

(* decode: "object" a JSON object, "null" the JSON literal null, "syntax" a body
   that is no JSON; ok: the ok field; error: the error field or NULL when absent;
   channels: <<>> when the field is absent, <<list>> when present *)
Payload(ok, error, channels) ==
    [decode |-> "object", ok |-> ok, error |-> error, channels |-> channels]
NullPayload == [decode |-> "null", ok |-> "missing", error |-> NULL, channels |-> <<>>]
BadPayload == [decode |-> "syntax", ok |-> "missing", error |-> NULL, channels |-> <<>>]

(* fetch rejected with an exception / fetch resolved with a response *)
Raised(etype, message) ==
    [kind |-> "raise", etype |-> etype, message |-> message, status |-> 0, payload |-> NoPayload]
Responded(status, payload) ==
    [kind |-> "response", etype |-> "", message |-> "", status |-> status, payload |-> payload]

(* Response.ok: status in the range 200-299 *)
ResponseOk(status) == status >= 200 /\ status <= 299

(* ---- the outcome of request(): a returned payload or a thrown error ---- *)
Returned(data) == [tag |-> "return", etype |-> "", message |-> "", data |-> data]
Thrown(etype, message) == [tag |-> "throw", etype |-> etype, message |-> message, data |-> NoPayload]

(* a catch clause that lets TypeError through *)
requestCatchNone(e) == e

(* the catch clause of request(): a TypeError becomes Error('CORS_ERROR'),
   anything else is rethrown *)
requestCatch(e) ==
    IF e.etype = "TypeError" THEN Thrown("Error", "CORS_ERROR") ELSE e

(* the ok flag read before the status *)
requestResultOkFirst(out) ==
    IF out.kind = "raise" THEN requestCatch(Thrown(out.etype, out.message))
    ELSE IF out.payload.decode = "object" /\ out.payload.ok # "true"
    THEN requestCatch(Thrown("Error",
            IF Truthy(out.payload.error) THEN out.payload.error ELSE "slack_api_error"))
    ELSE IF ~ResponseOk(out.status)
    THEN requestCatch(Thrown("Error", "HTTP_" \o ToString(out.status)))
    ELSE Returned(out.payload)

(* the try block of request() from the await of fetch on:
     fetch rejects                  -> the exception goes to the catch clause
     !response.ok                   -> throw new Error(`HTTP_${status}`)
     response.json() of no JSON     -> SyntaxError
     data.ok of the JSON null       -> TypeError (property read of null)
     !data.ok                       -> throw new Error(data.error || 'slack_api_error')
     otherwise                      -> return data *)
requestResult(out) ==
    IF out.kind = "raise" THEN requestCatch(Thrown(out.etype, out.message))
    ELSE IF ~ResponseOk(out.status)
    THEN requestCatch(Thrown("Error", "HTTP_" \o ToString(out.status)))
    ELSE IF out.payload.decode = "syntax"
    THEN requestCatch(Thrown("SyntaxError", "Unexpected token"))
    ELSE IF out.payload.decode = "null"
    THEN requestCatch(Thrown("TypeError", "Cannot read properties of null"))
    ELSE IF out.payload.ok # "true"
    THEN requestCatch(Thrown("Error",
            IF Truthy(out.payload.error) THEN out.payload.error ELSE "slack_api_error"))
    ELSE Returned(out.payload)

(* a fetchChannels that drops the channels of the response *)
fetchChannelsValueEmpty(data) == <<>>

(* a fetchChannels that keeps only the first channel of the response *)
fetchChannelsValueFirst(data) ==
    IF data.channels = <<>> THEN <<>> ELSE <<data.channels[1][1]>>

(* fetchChannels(): data.channels || [] *)
fetchChannelsValue(data) == IF data.channels = <<>> THEN <<>> ELSE data.channels[1]

(* The ConnectionOutcome of a settled call, as every caller of SlackService
   tells the classes apart: err.message === 'CORS_ERROR' *)
Classify(res) ==
    IF res.tag = "return" THEN "Success"
    ELSE IF res.message = "CORS_ERROR" THEN "TransportBlocked"
    ELSE "AuthError"

(***************************************************************************)
(* GeminiService: src/unnamed/part_000 (client built in the constructor,   *)
(* no key check, no try/catch) and src/unnamed/part_001 (key check, client *)
(* built per request inside try/catch)                                     *)
(***************************************************************************)
GeminiVersions == {"part_000", "part_001"}
Tones == {"professional", "friendly", "concise"}

(* the generateContent call: the key the client was built with, the model and
   the prompt, which embeds the tone and the literal message *)
GenRequest(key, message, tone) ==
    [apiKey |-> key, model |-> "gemini-3-flash-preview", tone |-> tone, message |-> message]

RefReturned(text) == [tag |-> "return", text |-> text]
RefThrown == [tag |-> "throw", text |-> NULL]
RefNone == [tag |-> "none", text |-> NULL]

(* generateContent resolved with a response whose text is text (NULL: no text),
   or rejected *)
GenText(text) == [kind |-> "text", text |-> text]
GenRaised == [kind |-> "raise", text |-> NULL]

(* refineMessage up to its first await.
   part_001: if (!apiKey) { console.warn(...); return message }, else the call.
   part_000: the client holds process.env.API_KEY || '' and the call is made. *)
refineMessageBegin(version, key, message, tone) ==
    IF version = "part_001"
    THEN IF ~Truthy(key)
         THEN [done |-> TRUE, warned |-> TRUE, req |-> <<>>, res |-> RefReturned(message)]
         ELSE [done |-> FALSE, warned |-> FALSE,
               req |-> <<GenRequest(key, message, tone)>>, res |-> RefNone]
    ELSE [done |-> FALSE, warned |-> FALSE,
          req |-> <<GenRequest(IF Truthy(key) THEN key ELSE "", message, tone)>>,
          res |-> RefNone]

(* a refineMessage that returns its input whatever the generation answered *)
refineMessageEndInput(version, message, gen) == RefReturned(message)

(* refineMessage after the await: return response.text || message; part_001
   catches a rejection and returns message, part_000 lets it propagate *)
refineMessageEnd(version, message, gen) ==
    IF gen.kind = "raise"
    THEN IF version = "part_001" THEN RefReturned(message) ELSE RefThrown
    ELSE RefReturned(IF Truthy(gen.text) THEN gen.text ELSE message)

(***************************************************************************)
(* localStorage: a sequence of entries in iteration order.  setItem        *)
(* replaces the value of an existing key in place and appends a new key;   *)
(* removeItem drops the entry.                                             *)
(***************************************************************************)
TOKEN_KEY == "slack_token"
PROXY_KEY == "slack_use_proxy"

hasItem(store, key) == \E i \in 1..Len(store) : store[i].key = key

(* getItem: the value as <<value>>, or <<>> for null *)
getItem(store, key) ==
    IF hasItem(store, key)
    THEN <<store[CHOOSE i \in 1..Len(store) : store[i].key = key].value>>
    ELSE <<>>

setItem(store, key, value) ==
    IF hasItem(store, key)
    THEN [i \in 1..Len(store) |->
            IF store[i].key = key THEN [key |-> key, value |-> value] ELSE store[i]]
    ELSE Append(store, [key |-> key, value |-> value])

RECURSIVE removeItem(_, _)
removeItem(store, key) ==
    IF store = <<>> THEN <<>>
    ELSE IF Head(store).key = key THEN removeItem(Tail(store), key)
    ELSE <<Head(store)>> \o removeItem(Tail(store), key)

(* Boolean.prototype.toString, as characters *)
BoolStr(b) == IF b THEN <<"t", "r", "u", "e">> ELSE <<"f", "a", "l", "s", "e">>

(***************************************************************************)
(* Token discovery (App.tsx 62-79 and 657-668)                             *)
(***************************************************************************)
Digits == {"0", "1", "2", "3", "4", "5", "6", "7", "8", "9"}
Lower == {"a", "b", "c", "d", "e", "f", "g", "h", "i", "j", "k", "l", "m",
          "n", "o", "p", "q", "r", "s", "t", "u", "v", "w", "x", "y", "z"}
Upper == {"A", "B", "C", "D", "E", "F", "G", "H", "I", "J", "K", "L", "M",
          "N", "O", "P", "Q", "R", "S", "T", "U", "V", "W", "X", "Y", "Z"}

(* [a-zA-Z0-9-] *)
IsTokenChar(c) == c \in Digits \cup Lower \cup Upper \cup {"-"}

(* xox[bap]-[a-zA-Z0-9-] matches at position i *)
PatternAt(val, i) ==
    /\ i + 5 <= Len(val)
    /\ val[i] = "x" /\ val[i + 1] = "o" /\ val[i + 2] = "x"
    /\ val[i + 3] \in {"b", "a", "p"}
    /\ val[i + 4] = "-"
    /\ IsTokenChar(val[i + 5])

(* the last position of the greedy run [a-zA-Z0-9-]+ that starts at j *)
RECURSIVE RunEnd(_, _)
RunEnd(val, j) ==
    IF j + 1 <= Len(val) /\ IsTokenChar(val[j + 1]) THEN RunEnd(val, j + 1) ELSE j

(* val.match(/xox[bap]-[a-zA-Z0-9-]+/): <<match[0]>> for the leftmost match,
   <<>> for null *)
slackPatternMatch(val) ==
    IF \E i \in 1..Len(val) : PatternAt(val, i)
    THEN LET i == CHOOSE k \in 1..Len(val) :
                    PatternAt(val, k) /\ \A m \in 1..(k - 1) : ~PatternAt(val, m)
         IN  <<SubSeq(val, i, RunEnd(val, i + 5))>>
    ELSE <<>>

(* String.prototype.startsWith *)
startsWith(val, pre) == Len(val) >= Len(pre) /\ SubSeq(val, 1, Len(pre)) = pre

(* a scan that reports every entry of the store as it is *)
scanEntryEvery(version, e, token) == <<[key |-> e.key, value |-> e.value]>>

(* what one entry contributes to the list of discovered tokens *)
scanEntry(version, e, token) ==
    IF e.key = "" \/ e.value = <<>> THEN <<>>
    ELSE IF version = 1
    THEN LET match == slackPatternMatch(e.value)
         IN  IF match # <<>> /\ match[1] # token
             THEN <<[key |-> e.key, value |-> match[1]]>> ELSE <<>>
    ELSE IF /\ \/ startsWith(e.value, <<"x", "o", "x", "b", "-">>)
               \/ startsWith(e.value, <<"x", "o", "x", "p", "-">>)
            /\ e.value # token
         THEN <<[key |-> e.key, value |-> e.value]>> ELSE <<>>

(* scanForTokens (version 1) / scanLocalStorage (version 2): the list that
   setDiscoveredTokens receives *)
RECURSIVE scanForTokens(_, _, _)
scanForTokens(version, store, token) ==
    IF store = <<>> THEN <<>>
    ELSE scanEntry(version, Head(store), token) \o scanForTokens(version, Tail(store), token)

(***************************************************************************)
(* State                                                                   *)
(***************************************************************************)
VARIABLES
    client,           \* SpecClient: the SlackService instance under test
    call,             \* SpecClient: the one call made on it, and how it settled
    geminiVersion,    \* which GeminiService the build holds
    apiKey,           \* process.env.API_KEY: NULL when unset
    refineCall,       \* SpecRefine: the one refineMessage call, and how it settled
    appVersion,       \* which App the build holds: 1 (App.tsx 1-591), 2 (593-1193)
    storage,          \* localStorage
    token,            \* useState: the active credential, <<>> when logged out
    useProxy,         \* useState: the active proxy mode
    inputToken,       \* useState: the token field
    channels,         \* useState: the channel list
    selectedChannel,  \* useState: <<>> or <<channel>>
    message,          \* useState: the message field
    status,           \* useState: AppStatus
    errorMessage,     \* useState: NULL or the message shown
    errorType,        \* useState: NULL, "AUTH" or "CORS"
    isVerifying,      \* useState
    showSettings,     \* useState
    isRefining,       \* useState
    successToast,     \* useState: the delivered signal
    discoveredTokens, \* useState
    slackServiceRef,  \* useRef: <<>> or <<SlackService>>
    inflight,         \* the requests awaited, in dispatch order
    timers            \* the time left on the pending setTimeout callbacks

clientVars == <<client, call>>
envVars == <<geminiVersion, apiKey>>
appVars ==
    <<appVersion, storage, token, useProxy, inputToken, channels, selectedChannel,
      message, status, errorMessage, errorType, isVerifying, showSettings, isRefining,
      successToast, discoveredTokens, slackServiceRef, inflight, timers>>
otherVars == <<client, call, geminiVersion, apiKey, refineCall>>
vars == <<client, call, geminiVersion, apiKey, refineCall, appVars>>

ApiKeys == {NULL, "", "AIza-key"}

InitEnv ==
    /\ geminiVersion \in GeminiVersions
    /\ apiKey \in ApiKeys

NoRequest == requestInit(SlackService(<<>>, NULL), "", "", NoBody)
NoOutcome == [kind |-> "none", etype |-> "", message |-> "", status |-> 0, payload |-> NoPayload]
NoResult == [tag |-> "none", etype |-> "", message |-> "", data |-> NoPayload]
IdleCall ==
    [phase |-> "idle", op |-> "", req |-> NoRequest, out |-> NoOutcome,
     res |-> NoResult, value |-> <<>>]

(***************************************************************************)
(* App: requests in flight, effects, mount                                 *)
(***************************************************************************)
MaxInflight == 2

ToastDuration == 3

(* an awaited request: what was sent, and what the continuation closed over *)
Awaited(op, req, cleanToken, activeProxy, text, gen) ==
    [op |-> op, req |-> req, cleanToken |-> cleanToken, activeProxy |-> activeProxy,
     text |-> text, gen |-> gen]

VerifyReq(cleanToken, activeProxy) ==
    Awaited("verify",
            requestInit(SlackService(cleanToken, IF activeProxy THEN DEFAULT_PROXY ELSE NULL),
                        AuthEndpoint, "GET", NoBody),
            cleanToken, activeProxy, "", <<>>)
ListReq(svc) ==
    Awaited("list", requestInit(svc, ListEndpoint, "GET", NoBody), <<>>, FALSE, "", <<>>)
SendReq(svc, channelId, text) ==
    Awaited("send", requestInit(svc, PostEndpoint, "POST", [channel |-> channelId, text |-> text]),
            <<>>, FALSE, "", <<>>)
RefineReq(text, gen) == Awaited("refine", NoRequest, <<>>, FALSE, text, gen)

(* what the transport does with a request of the App, and what the generation
   endpoint answers *)
AppOutcomes ==
    { Raised("TypeError", "Failed to fetch"),
      Responded(401, Payload("false", "invalid_auth", <<>>)),
      Responded(200, Payload("true", NULL, <<>>)),
      Responded(200, Payload("true", NULL, << <<Chan1, Chan2>> >>)),
      Responded(200, Payload("false", "CORS_ERROR", <<>>)) }
AppGenOutcomes == {GenRaised, GenText("Hello.")}

RemoveAt(seq, i) == SubSeq(seq, 1, i - 1) \o SubSeq(seq, i + 1, Len(seq))

(* an initialisation effect that builds the service without the token *)
ServiceForBlank(t, p) ==
    IF t # <<>> THEN <<SlackService(<<>>, IF p THEN DEFAULT_PROXY ELSE NULL)>> ELSE <<>>

(* the service the initialisation effect leaves in slackServiceRef *)
ServiceFor(t, p) ==
    IF t # <<>> THEN <<SlackService(t, IF p THEN DEFAULT_PROXY ELSE NULL)>> ELSE <<>>

(* The effects that run after a render in which token, useProxy, showSettings
   became t, p, ss (in declaration order):
     [token, useProxy]: slackServiceRef is rebuilt; version 2 also copies token
                        into the token field
     [scanForTokens], which changes with token: the store is scanned
     [fetchChannels, token, showSettings]: if (token && !showSettings)
                        fetchChannels(), which returns early without a token or a
                        service, and otherwise sets LOADING and awaits the list
   it, st, store, fl are the token field, status, store and awaited requests the
   handler left. *)
Effects(t, p, ss, it, st, store, fl) ==
    LET svcChanged == t # token \/ p # useProxy
        ref == IF svcChanged THEN ServiceFor(t, p) ELSE slackServiceRef
        fetch == (t # token \/ ss # showSettings) /\ t # <<>> /\ ~ss /\ ref # <<>>
    IN  /\ slackServiceRef' = ref
        /\ inputToken' = IF appVersion = 2 /\ svcChanged THEN t ELSE it
        /\ discoveredTokens' =
              IF t # token THEN scanForTokens(appVersion, store, t) ELSE discoveredTokens
        /\ status' = IF fetch THEN "LOADING" ELSE st
        /\ inflight' = IF fetch THEN Append(fl, ListReq(ref[1])) ELSE fl
        /\ Len(inflight') <= MaxInflight

(* The component after its first render and its mount effects, over a store *)
Mount(version, store) ==
    LET t == IF getItem(store, TOKEN_KEY) # <<>> THEN getItem(store, TOKEN_KEY)[1] ELSE <<>>
        p == getItem(store, PROXY_KEY) = <<BoolStr(TRUE)>>
        ref == ServiceFor(t, p)
    IN  /\ appVersion = version
        /\ storage = store
        /\ token = t
        /\ useProxy = p
        /\ inputToken = t
        /\ channels = <<>>
        /\ selectedChannel = <<>>
        /\ message = ""
        /\ status = IF t # <<>> THEN "LOADING" ELSE "IDLE"
        /\ errorMessage = NULL
        /\ errorType = NULL
        /\ isVerifying = FALSE
        /\ showSettings = FALSE
        /\ isRefining = FALSE
        /\ successToast = FALSE
        /\ discoveredTokens = scanForTokens(version, store, t)
        /\ slackServiceRef = ref
        /\ inflight = IF t # <<>> THEN <<ListReq(ref[1])>> ELSE <<>>
        /\ timers = {}

(***************************************************************************)
(* App: what is on screen                                                  *)
(***************************************************************************)
(* if (!token) return <the authenticate view>; the settings dialog covers the
   main view while showSettings holds *)
AuthView == token = <<>>
MainView == token # <<>> /\ ~showSettings
SettingsView == token # <<>> /\ showSettings

(* the Connect button of the authenticate view: version 1
   disabled={isVerifying || !inputToken}, version 2 disabled={isVerifying} *)
ConnectEnabled ==
    IF appVersion = 1 THEN ~isVerifying /\ inputToken # <<>> ELSE ~isVerifying

(* the send button: disabled={!selectedChannel || !message || status === LOADING} *)
SendEnabled == selectedChannel # <<>> /\ message # "" /\ status # "LOADING"

(***************************************************************************)
(* App: handlers                                                           *)
(***************************************************************************)
InputTokens == {PaddedA, Blank}
Drafts == {"hello"}

(* handleConnect persisting the token as typed instead of the trimmed one *)
handleConnectCleanTokenRaw(targetToken) == targetToken

(* const cleanToken = targetToken.trim() *)
handleConnectCleanToken(targetToken) == Trim(targetToken)

(* a handleConnect that ignores its forceProxy argument *)
handleConnectActiveProxyIgnored(forceProxy, current) == current

(* const activeProxy = forceProxy !== undefined ? forceProxy : useProxy *)
handleConnectActiveProxy(forceProxy, current) ==
    IF forceProxy # <<>> THEN forceProxy[1] ELSE current

(* handleConnect(targetToken, forceProxy) up to the await of testConnection;
   forceProxy is <<>> when the argument is not given *)
handleConnect(targetToken, forceProxy) ==
    LET cleanToken == handleConnectCleanToken(targetToken)
        activeProxy == handleConnectActiveProxy(forceProxy, useProxy)
    IN  /\ IF cleanToken = <<>>
           THEN /\ errorMessage' =
                     IF appVersion = 2 THEN "Token field is empty." ELSE errorMessage
                /\ UNCHANGED <<isVerifying, errorType, inflight>>
           ELSE /\ isVerifying' = TRUE
                /\ errorMessage' = NULL
                /\ errorType' = NULL
                /\ inflight' = Append(inflight, VerifyReq(cleanToken, activeProxy))
                /\ Len(inflight') <= MaxInflight
        /\ UNCHANGED <<otherVars, appVersion, storage, token, useProxy, channels, selectedChannel,
                       message, status, showSettings, isRefining, successToast,
                       discoveredTokens, slackServiceRef, timers>>

(* onChange of the token field (authenticate view and settings dialog) *)
TypeToken ==
    /\ AuthView \/ SettingsView
    /\ \E t \in InputTokens : inputToken' = t
    /\ UNCHANGED <<otherVars, appVersion, storage, token, useProxy, channels, selectedChannel,
                   message, status, errorMessage, errorType, isVerifying, showSettings,
                   isRefining, successToast, discoveredTokens, slackServiceRef,
                   inflight, timers>>

(* Connect (authenticate view) and Save Sync (settings dialog):
   handleConnect(inputToken) *)
ClickConnect ==
    /\ (AuthView /\ ConnectEnabled) \/ SettingsView
    /\ handleConnect(inputToken, <<>>)
    /\ UNCHANGED inputToken

(* a discovered token of the authenticate view: version 1
   setInputToken(t.value); handleConnect(t.value), version 2 setInputToken(t.value) *)
ClickDiscovered ==
    /\ AuthView
    /\ discoveredTokens # <<>>
    /\ inputToken = <<>>
    /\ \E i \in 1..Len(discoveredTokens) :
          /\ inputToken' = discoveredTokens[i].value
          /\ IF appVersion = 1
             THEN handleConnect(discoveredTokens[i].value, <<>>)
             ELSE UNCHANGED <<otherVars, appVersion, storage, token, useProxy, channels,
                              selectedChannel, message, status, errorMessage, errorType,
                              isVerifying, showSettings, isRefining, successToast,
                              discoveredTokens, slackServiceRef, inflight, timers>>

(* the proxy button under a CORS error of the authenticate view:
   handleConnect(inputToken, true) *)
ClickProxyBypass ==
    /\ AuthView
    /\ Truthy(errorMessage)
    /\ errorType = "CORS"
    /\ handleConnect(inputToken, <<TRUE>>)
    /\ UNCHANGED inputToken

(* version 2, Enable Proxy in the error banner of the main view:
   handleConnect(token, true) *)
ClickEnableProxy ==
    /\ appVersion = 2
    /\ MainView
    /\ Truthy(errorMessage)
    /\ errorType = "CORS"
    /\ handleConnect(token, <<TRUE>>)
    /\ UNCHANGED inputToken

(* version 2, the dismiss button of the error banner *)
DismissError ==
    /\ appVersion = 2
    /\ MainView
    /\ Truthy(errorMessage)
    /\ errorMessage' = NULL
    /\ errorType' = NULL
    /\ UNCHANGED <<otherVars, appVersion, storage, token, useProxy, inputToken, channels,
                   selectedChannel, message, status, isVerifying, showSettings,
                   isRefining, successToast, discoveredTokens, slackServiceRef,
                   inflight, timers>>

(* the continuation of handleConnect after testConnection resolved: persist,
   setToken, setUseProxy, (version 1) setInputToken, setShowSettings(false),
   setErrorMessage(null), finally setIsVerifying(false); then the effects *)
VerifySucceedsAt(i, out) ==
        LET r == inflight[i]
            res == requestResult(out)
            store == setItem(setItem(storage, TOKEN_KEY, r.cleanToken),
                             PROXY_KEY, BoolStr(r.activeProxy))
        IN  /\ r.op = "verify"
            /\ res.tag = "return"
            /\ storage' = store
            /\ token' = r.cleanToken
            /\ useProxy' = r.activeProxy
            /\ showSettings' = FALSE
            /\ errorMessage' = NULL
            /\ isVerifying' = FALSE
            /\ Effects(r.cleanToken, r.activeProxy, FALSE,
                       IF appVersion = 1 THEN r.cleanToken ELSE inputToken,
                       status, store, RemoveAt(inflight, i))
            /\ UNCHANGED <<otherVars, appVersion, channels, selectedChannel, message, errorType,
                           isRefining, successToast, timers>>

VerifySucceeds == \E i \in 1..Len(inflight), out \in AppOutcomes : VerifySucceedsAt(i, out)

(* a catch that records every failure of the verification as AUTH *)
handleConnectErrorTypeAuth(res) == "AUTH"

(* the catch of handleConnect: if (err.message === 'CORS_ERROR') setErrorType('CORS')
   else setErrorType('AUTH') *)
handleConnectErrorType(res) == IF res.message = "CORS_ERROR" THEN "CORS" ELSE "AUTH"

(* the catch and finally of handleConnect *)
VerifyFailsAt(i, out) ==
        LET r == inflight[i]
            res == requestResult(out)
        IN  /\ r.op = "verify"
            /\ res.tag = "throw"
            /\ IF handleConnectErrorType(res) = "CORS"
               THEN /\ errorType' = "CORS"
                    /\ errorMessage' =
                         IF appVersion = 1
                         THEN "CORS Blocked: The browser restricted the request. Enable the Proxy to continue."
                         ELSE "Browser blocked the request. Try clicking \"Fix with Proxy\" below."
               ELSE /\ errorMessage' =
                         (IF appVersion = 1 THEN "Slack API Error: " ELSE "Slack Error: ")
                             \o res.message
                    /\ errorType' = "AUTH"
            /\ isVerifying' = FALSE
            /\ inflight' = RemoveAt(inflight, i)
            /\ UNCHANGED <<otherVars, appVersion, storage, token, useProxy, inputToken, channels,
                           selectedChannel, message, status, showSettings, isRefining,
                           successToast, discoveredTokens, slackServiceRef, timers>>

VerifyFails == \E i \in 1..Len(inflight), out \in AppOutcomes : VerifyFailsAt(i, out)

(* a logout that leaves the proxy flag in the store *)
handleLogoutStoreTokenOnly(store) == removeItem(store, TOKEN_KEY)

(* localStorage.removeItem('slack_token'); localStorage.removeItem('slack_use_proxy') *)
handleLogoutStore(store) == removeItem(removeItem(store, TOKEN_KEY), PROXY_KEY)

(* handleLogout *)
ClickLogout ==
    LET store == handleLogoutStore(storage)
    IN  /\ MainView \/ SettingsView
        /\ storage' = store
        /\ token' = <<>>
        /\ channels' = <<>>
        /\ selectedChannel' = <<>>
        /\ showSettings' = FALSE
        /\ IF appVersion = 2
           THEN errorMessage' = NULL /\ errorType' = NULL
           ELSE UNCHANGED <<errorMessage, errorType>>
        /\ Effects(<<>>, useProxy, FALSE, <<>>, status, store, inflight)
        /\ UNCHANGED <<otherVars, appVersion, useProxy, message, isVerifying, isRefining,
                       successToast, timers>>

(* the settings button of the main view *)
OpenSettings ==
    /\ MainView
    /\ showSettings' = TRUE
    /\ Effects(token, useProxy, TRUE, inputToken, status, storage, inflight)
    /\ UNCHANGED <<otherVars, appVersion, storage, token, useProxy, channels, selectedChannel,
                   message, errorMessage, errorType, isVerifying, isRefining,
                   successToast, timers>>

(* Return in the settings dialog *)
CloseSettings ==
    /\ SettingsView
    /\ showSettings' = FALSE
    /\ Effects(token, useProxy, FALSE, inputToken, status, storage, inflight)
    /\ UNCHANGED <<otherVars, appVersion, storage, token, useProxy, channels, selectedChannel,
                   message, errorMessage, errorType, isVerifying, isRefining,
                   successToast, timers>>

(* the proxy switch of the settings dialog: setUseProxy(!useProxy) *)
ToggleProxy ==
    /\ SettingsView
    /\ useProxy' = ~useProxy
    /\ Effects(token, ~useProxy, showSettings, inputToken, status, storage, inflight)
    /\ UNCHANGED <<otherVars, appVersion, storage, token, channels, selectedChannel, message,
                   errorMessage, errorType, isVerifying, showSettings, isRefining,
                   successToast, timers>>

(* a fetchChannels that issues its request a second time *)
fetchChannelsTwice ==
    IF token = <<>> \/ slackServiceRef = <<>>
    THEN UNCHANGED <<status, inflight>>
    ELSE /\ status' = "LOADING"
         /\ inflight' = inflight \o <<ListReq(slackServiceRef[1]), ListReq(slackServiceRef[1])>>
         /\ Len(inflight') <= MaxInflight

(* fetchChannels() up to the await: if (!token || !slackServiceRef.current)
   return; setStatus(LOADING) *)
fetchChannels ==
    IF token = <<>> \/ slackServiceRef = <<>>
    THEN UNCHANGED <<status, inflight>>
    ELSE /\ status' = "LOADING"
         /\ inflight' = Append(inflight, ListReq(slackServiceRef[1]))
         /\ Len(inflight') <= MaxInflight

(* the refresh button of the main view *)
ClickRefresh ==
    /\ MainView
    /\ fetchChannels
    /\ UNCHANGED <<otherVars, appVersion, storage, token, useProxy, inputToken, channels,
                   selectedChannel, message, errorMessage, errorType, isVerifying,
                   showSettings, isRefining, successToast, discoveredTokens,
                   slackServiceRef, timers>>

(* the continuation of fetchChannels after the list resolved *)
ListSucceedsAt(i, out) ==
        LET r == inflight[i]
            res == requestResult(out)
        IN  /\ r.op = "list"
            /\ res.tag = "return"
            /\ channels' = fetchChannelsValue(res.data)
            /\ status' = "SUCCESS"
            /\ errorMessage' = NULL
            /\ errorType' = NULL
            /\ inflight' = RemoveAt(inflight, i)
            /\ UNCHANGED <<otherVars, appVersion, storage, token, useProxy, inputToken,
                           selectedChannel, message, isVerifying, showSettings,
                           isRefining, successToast, discoveredTokens, slackServiceRef,
                           timers>>

ListSucceeds == \E i \in 1..Len(inflight), out \in AppOutcomes : ListSucceedsAt(i, out)

(* the catch of fetchChannels *)
ListFailsAt(i, out) ==
        LET r == inflight[i]
            res == requestResult(out)
        IN  /\ r.op = "list"
            /\ res.tag = "throw"
            /\ IF res.message = "CORS_ERROR"
               THEN /\ errorType' = "CORS"
                    /\ errorMessage' =
                         IF appVersion = 1
                         THEN "Connection blocked by Browser Security (CORS). This is common for Slack on the web."
                         ELSE "Request blocked by browser security (CORS). Enable the proxy below to bypass."
               ELSE /\ errorMessage' =
                         IF Truthy(res.message) THEN res.message
                         ELSE "Failed to fetch channels."
                    /\ errorType' = "AUTH"
            /\ status' = "ERROR"
            /\ inflight' = RemoveAt(inflight, i)
            /\ UNCHANGED <<otherVars, appVersion, storage, token, useProxy, inputToken, channels,
                           selectedChannel, message, isVerifying, showSettings,
                           isRefining, successToast, discoveredTokens, slackServiceRef,
                           timers>>

ListFails == \E i \in 1..Len(inflight), out \in AppOutcomes : ListFailsAt(i, out)

(* a channel of the list: setSelectedChannel(channel) *)
SelectChannel ==
    /\ MainView
    /\ \E i \in 1..Len(channels) : selectedChannel' = <<channels[i]>>
    /\ UNCHANGED <<otherVars, appVersion, storage, token, useProxy, inputToken, channels, message,
                   status, errorMessage, errorType, isVerifying, showSettings,
                   isRefining, successToast, discoveredTokens, slackServiceRef,
                   inflight, timers>>

(* onChange of the message field, disabled={!selectedChannel} *)
TypeMessage ==
    /\ MainView
    /\ selectedChannel # <<>>
    /\ \E text \in Drafts : message' = text
    /\ UNCHANGED <<otherVars, appVersion, storage, token, useProxy, inputToken, channels,
                   selectedChannel, status, errorMessage, errorType, isVerifying,
                   showSettings, isRefining, successToast, discoveredTokens,
                   slackServiceRef, inflight, timers>>

(* handleSendMessage up to the await: if (!selectedChannel || !message ||
   !slackServiceRef.current) return; setStatus(LOADING) *)
handleSendMessage ==
    IF selectedChannel = <<>> \/ message = "" \/ slackServiceRef = <<>>
    THEN UNCHANGED <<status, inflight>>
    ELSE /\ status' = "LOADING"
         /\ inflight' = Append(inflight,
                           SendReq(slackServiceRef[1], selectedChannel[1].id, message))
         /\ Len(inflight') <= MaxInflight

(* the send button *)
ClickSend ==
    /\ MainView
    /\ SendEnabled
    /\ handleSendMessage
    /\ UNCHANGED <<otherVars, appVersion, storage, token, useProxy, inputToken, channels,
                   selectedChannel, message, errorMessage, errorType, isVerifying,
                   showSettings, isRefining, successToast, discoveredTokens,
                   slackServiceRef, timers>>

(* a send that leaves the text in the field *)
messageAfterSendKept(text) == text

(* setMessage('') *)
messageAfterSend(text) == ""

(* the continuation of handleSendMessage after sendMessage resolved:
   setMessage(''), setSuccessToast(true), setTimeout(..., 3000),
   setStatus(SUCCESS), (version 2) setErrorMessage(null) *)
SendSucceedsAt(i, out) ==
        LET r == inflight[i]
            res == requestResult(out)
        IN  /\ r.op = "send"
            /\ res.tag = "return"
            /\ message' = messageAfterSend(message)
            /\ successToast' = TRUE
            /\ timers' = timers \cup {ToastDuration}
            /\ status' = "SUCCESS"
            /\ errorMessage' = IF appVersion = 2 THEN NULL ELSE errorMessage
            /\ inflight' = RemoveAt(inflight, i)
            /\ UNCHANGED <<otherVars, appVersion, storage, token, useProxy, inputToken, channels,
                           selectedChannel, errorType, isVerifying, showSettings,
                           isRefining, discoveredTokens, slackServiceRef>>

SendSucceeds == \E i \in 1..Len(inflight), out \in AppOutcomes : SendSucceedsAt(i, out)

(* the catch of handleSendMessage *)
SendFailsAt(i, out) ==
        LET r == inflight[i]
            res == requestResult(out)
        IN  /\ r.op = "send"
            /\ res.tag = "throw"
            /\ errorMessage' =
                 IF res.message = "CORS_ERROR"
                 THEN "Send blocked by CORS. Enable Proxy in settings."
                 ELSE res.message
            /\ status' = "ERROR"
            /\ inflight' = RemoveAt(inflight, i)
            /\ UNCHANGED <<otherVars, appVersion, storage, token, useProxy, inputToken, channels,
                           selectedChannel, message, errorType, isVerifying,
                           showSettings, isRefining, successToast, discoveredTokens,
                           slackServiceRef, timers>>

SendFails == \E i \in 1..Len(inflight), out \in AppOutcomes : SendFailsAt(i, out)

(* a tone button: refineWithAI(tone).  if (!message) return; setIsRefining(true);
   when refineMessage returns without awaiting the network (no key, part_001)
   the continuation follows at once: setMessage(refined), setIsRefining(false) *)
ClickRefine ==
    /\ MainView
    /\ message # ""
    /\ selectedChannel # <<>>
    /\ ~isRefining
    /\ \E tone \in Tones :
          LET b == refineMessageBegin(geminiVersion, apiKey, message, tone)
          IN  IF b.done
              THEN /\ message' = b.res.text
                   /\ isRefining' = FALSE
                   /\ UNCHANGED inflight
              ELSE /\ isRefining' = TRUE
                   /\ inflight' = Append(inflight, RefineReq(message, b.req))
                   /\ Len(inflight') <= MaxInflight
                   /\ UNCHANGED message
    /\ UNCHANGED <<otherVars, appVersion, storage, token, useProxy, inputToken, channels,
                   selectedChannel, status, errorMessage, errorType, isVerifying,
                   showSettings, successToast, discoveredTokens, slackServiceRef,
                   timers>>

(* the continuation of refineWithAI: setMessage(refined) when refineMessage
   returned, console.error when it threw; finally setIsRefining(false) *)
RefineSettlesAt(i, gen) ==
        LET r == inflight[i]
            res == refineMessageEnd(geminiVersion, r.text, gen)
        IN  /\ r.op = "refine"
            /\ message' = IF res.tag = "return" THEN res.text ELSE message
            /\ isRefining' = FALSE
            /\ inflight' = RemoveAt(inflight, i)
            /\ UNCHANGED <<otherVars, appVersion, storage, token, useProxy, inputToken, channels,
                           selectedChannel, status, errorMessage, errorType,
                           isVerifying, showSettings, successToast, discoveredTokens,
                           slackServiceRef, timers>>

RefineSettles == \E i \in 1..Len(inflight), gen \in AppGenOutcomes : RefineSettlesAt(i, gen)

(* the least of a non-empty set of numbers *)
Least(S) == CHOOSE m \in S : \A t \in S : m <= t

(* time passes until the next callback is due; a callback that is due runs
   before more time passes *)
TimePasses ==
    /\ timers # {}
    /\ 0 \notin timers
    /\ timers' = {t - Least(timers) : t \in timers}
    /\ UNCHANGED <<otherVars, appVersion, storage, token, useProxy, inputToken, channels,
                   selectedChannel, message, status, errorMessage, errorType,
                   isVerifying, showSettings, isRefining, successToast,
                   discoveredTokens, slackServiceRef, inflight>>

(* one unit of time passes; a callback that is due runs before more time passes *)
Tick ==
    /\ timers # {}
    /\ 0 \notin timers
    /\ timers' = {t - 1 : t \in timers}
    /\ UNCHANGED <<otherVars, appVersion, storage, token, useProxy, inputToken, channels,
                   selectedChannel, message, status, errorMessage, errorType,
                   isVerifying, showSettings, isRefining, successToast,
                   discoveredTokens, slackServiceRef, inflight>>

(* the setTimeout callback of handleSendMessage: setSuccessToast(false) *)
ToastTimeout ==
    /\ 0 \in timers
    /\ successToast' = FALSE
    /\ timers' = timers \ {0}
    /\ UNCHANGED <<otherVars, appVersion, storage, token, useProxy, inputToken, channels,
                   selectedChannel, message, status, errorMessage, errorType,
                   isVerifying, showSettings, isRefining, discoveredTokens,
                   slackServiceRef, inflight>>

(* another application of the origin sets its entry of the shared store, to
   the empty string or to a token; the periodic re-scan exists to see it *)
ForeignWrite ==
    /\ \E v \in {<<>>, TokA} : storage' = setItem(storage, "legacy", v)
    /\ UNCHANGED <<otherVars, appVersion, token, useProxy, inputToken, channels,
                   selectedChannel, message, status, errorMessage, errorType,
                   isVerifying, showSettings, isRefining, successToast,
                   discoveredTokens, slackServiceRef, inflight, timers>>

(* version 1: setInterval(scanForTokens, 5000) *)
ScanInterval ==
    /\ appVersion = 1
    /\ discoveredTokens' = scanForTokens(appVersion, storage, token)
    /\ UNCHANGED <<otherVars, appVersion, storage, token, useProxy, inputToken, channels,
                   selectedChannel, message, status, errorMessage, errorType,
                   isVerifying, showSettings, isRefining, successToast,
                   slackServiceRef, inflight, timers>>

(***************************************************************************)
(* Spec: the App of either version, with either GeminiService              *)
(***************************************************************************)
(* another application's entries in the shared store: a token inside a JSON
   text, and a bare token *)
ForeignStore ==
    << [key |-> "other_app",
        value |-> <<"{", "\"", "t", "\"", ":", "\"">> \o TokA \o <<"\"", "}">>],
       [key |-> "legacy", value |-> TokB] >>

IdleRefine ==
    [phase |-> "idle", message |-> "", tone |-> "", req |-> <<>>, warned |-> FALSE,
     gen |-> [kind |-> "none", text |-> NULL], res |-> RefNone]

(* the builds of the App: the earlier GeminiService needs a key to construct,
   the later one runs with or without *)
AppEnvs == {<<"part_000", "AIza-key">>, <<"part_001", NULL>>, <<"part_001", "AIza-key">>}

Init ==
    /\ \E e \in AppEnvs : geminiVersion = e[1] /\ apiKey = e[2]
    /\ refineCall = IdleRefine
    /\ client = SlackService(<<>>, NULL)
    /\ call = IdleCall
    /\ \E v \in {1, 2} : Mount(v, ForeignStore)

Next ==
    \/ TypeToken
    \/ ClickConnect
    \/ ClickDiscovered
    \/ ClickProxyBypass
    \/ ClickEnableProxy
    \/ DismissError
    \/ VerifySucceeds
    \/ VerifyFails
    \/ ClickLogout
    \/ OpenSettings
    \/ CloseSettings
    \/ ToggleProxy
    \/ ClickRefresh
    \/ ListSucceeds
    \/ ListFails
    \/ SelectChannel
    \/ TypeMessage
    \/ ClickSend
    \/ SendSucceeds
    \/ SendFails
    \/ ClickRefine
    \/ RefineSettles
    \/ TimePasses
    \/ Tick
    \/ ToastTimeout
    \/ ScanInterval
    \/ ForeignWrite

(* The whole App.  Its state space is large; properties are verified under
   the specifications below it, whose next-state relations are parts of Next
   over the same state. *)
Spec == Init /\ [][Next]_vars

(***************************************************************************)
(* SpecSession: the App of either version from a first visit, over the     *)
(* handlers that connect, disconnect and configure the session             *)
(***************************************************************************)
InitSession ==
    /\ geminiVersion = "part_001"
    /\ apiKey = NULL
    /\ refineCall = IdleRefine
    /\ client = SlackService(<<>>, NULL)
    /\ call = IdleCall
    /\ \E v \in {1, 2} : Mount(v, ForeignStore)

NextSession ==
    \/ TypeToken
    \/ ClickConnect
    \/ ClickDiscovered
    \/ ClickProxyBypass
    \/ ClickEnableProxy
    \/ DismissError
    \/ VerifySucceeds
    \/ VerifyFails
    \/ ClickLogout
    \/ OpenSettings
    \/ CloseSettings
    \/ ToggleProxy
    \/ ClickRefresh
    \/ ListSucceeds
    \/ ListFails
    \/ ScanInterval

SpecSession == InitSession /\ [][NextSession]_vars

(***************************************************************************)
(* SpecCompose: the App of either version on a return visit (a session     *)
(* persisted by an earlier visit), over the handlers of the main view      *)
(***************************************************************************)
(* the store an earlier session without the proxy left behind *)
PersistedStore ==
    setItem(setItem(ForeignStore, TOKEN_KEY, TokA), PROXY_KEY, BoolStr(FALSE))

ComposeEnvs == {<<"part_000", "AIza-key">>, <<"part_001", NULL>>}

InitCompose ==
    /\ \E e \in ComposeEnvs : geminiVersion = e[1] /\ apiKey = e[2]
    /\ refineCall = IdleRefine
    /\ client = SlackService(<<>>, NULL)
    /\ call = IdleCall
    /\ \E v \in {1, 2} : Mount(v, PersistedStore)

NextCompose ==
    \/ ClickLogout
    \/ ClickRefresh
    \/ ListSucceeds
    \/ ListFails
    \/ SelectChannel
    \/ TypeMessage
    \/ ClickSend
    \/ SendSucceeds
    \/ SendFails
    \/ ClickRefine
    \/ RefineSettles
    \/ TimePasses
    \/ ToastTimeout
    \/ DismissError

SpecCompose == InitCompose /\ [][NextCompose]_vars

(***************************************************************************)
(* SpecScan: the token scan of a session whose store other applications    *)
(* of the origin write to                                                  *)
(***************************************************************************)
NextScan ==
    \/ ForeignWrite
    \/ ScanInterval
    \/ TypeToken
    \/ ClickConnect
    \/ VerifySucceeds
    \/ VerifyFails
    \/ ListSucceeds
    \/ ListFails
    \/ ClickLogout

SpecScan == InitSession /\ [][NextScan]_vars

(***************************************************************************)
(* SpecRace: connect, logout, refresh and send of one session, with the    *)
(* requests of each still awaited while the others run                     *)
(***************************************************************************)
NextRace ==
    \/ ClickDiscovered
    \/ ClickConnect
    \/ VerifySucceeds
    \/ VerifyFails
    \/ ClickLogout
    \/ ClickRefresh
    \/ ListSucceeds
    \/ ListFails
    \/ SelectChannel
    \/ TypeMessage
    \/ ClickSend
    \/ SendSucceeds
    \/ SendFails

SpecRace == InitSession /\ [][NextRace]_vars

(***************************************************************************)
(* SpecDraft: the message field of a connected session, with sends and     *)
(* refinements awaited; either GeminiService, with and without a key       *)
(***************************************************************************)
InitDraft ==
    /\ \E e \in ComposeEnvs \cup {<<"part_001", "AIza-key">>} :
          geminiVersion = e[1] /\ apiKey = e[2]
    /\ refineCall = IdleRefine
    /\ client = SlackService(<<>>, NULL)
    /\ call = IdleCall
    /\ \E v \in {1, 2} : Mount(v, PersistedStore)

NextDraft ==
    \/ ListSucceeds
    \/ ListFails
    \/ SelectChannel
    \/ TypeMessage
    \/ ClickSend
    \/ SendSucceeds
    \/ SendFails
    \/ ClickRefine
    \/ RefineSettles

SpecDraft == InitDraft /\ [][NextDraft]_vars

(***************************************************************************)
(* SpecSend: the App of either version on a return visit, over the         *)
(* handlers that list channels and send, with time passing unit by unit    *)
(***************************************************************************)
InitSend ==
    /\ geminiVersion = "part_001"
    /\ apiKey = NULL
    /\ refineCall = IdleRefine
    /\ client = SlackService(<<>>, NULL)
    /\ call = IdleCall
    /\ \E v \in {1, 2} : Mount(v, PersistedStore)

NextSend ==
    \/ ClickRefresh
    \/ ListSucceeds
    \/ ListFails
    \/ SelectChannel
    \/ TypeMessage
    \/ ClickSend
    \/ SendSucceeds
    \/ SendFails
    \/ Tick
    \/ ToastTimeout

SpecSend == InitSend /\ [][NextSend]_vars

(***************************************************************************)
(* SpecClient: one SlackService, called from outside, over every transport *)
(* outcome                                                                 *)
(***************************************************************************)
CtorTokens == {TokA, PaddedA, TokB, Blank}
CtorProxies == {NULL, "", DEFAULT_PROXY}

Statuses == {200, 299, 300, 401, 500}
OkFields == {"true", "false", "missing"}
ErrorFields == {NULL, "", "invalid_auth", "CORS_ERROR"}
ChannelFields == {<<>>, << <<>> >>, << <<Chan1, Chan2>> >>}
Payloads ==
    {Payload(ok, e, ch) : ok \in OkFields, e \in ErrorFields, ch \in ChannelFields}
        \cup {NullPayload, BadPayload}
Exceptions ==
    { Raised("TypeError", "Failed to fetch"),
      Raised("DOMException", "The operation was aborted."),
      Raised("Error", "socket hang up") }
Responses == {Responded(st, p) : st \in Statuses, p \in Payloads}

PendingCall(op, req) ==
    [phase |-> "pending", op |-> op, req |-> req, out |-> NoOutcome,
     res |-> NoResult, value |-> <<>>]

InitClient ==
    /\ geminiVersion = "part_001"
    /\ apiKey = NULL
    /\ refineCall = IdleRefine
    /\ Mount(1, <<>>)
    /\ client \in {SlackService(t, p) : t \in CtorTokens, p \in CtorProxies}
    /\ call = IdleCall

(* new SlackService(token, proxyUrl) *)
ClientConstruct ==
    /\ call.phase # "pending"
    /\ \E t \in CtorTokens, p \in CtorProxies : client' = SlackService(t, p)
    /\ call' = IdleCall
    /\ UNCHANGED <<envVars, refineCall, appVars>>

(* fetchChannels(), up to the await of fetch *)
ClientFetchChannels ==
    /\ call.phase # "pending"
    /\ call' = PendingCall("fetchChannels", requestInit(client, ListEndpoint, "GET", NoBody))
    /\ UNCHANGED <<client, envVars, refineCall, appVars>>

(* sendMessage(channelId, text), up to the await of fetch *)
ClientSendMessage ==
    /\ call.phase # "pending"
    /\ \E ch \in {"C1", "C2"}, text \in {"hello", ""} :
          call' = PendingCall("sendMessage",
                     requestInit(client, PostEndpoint, "POST", [channel |-> ch, text |-> text]))
    /\ UNCHANGED <<client, envVars, refineCall, appVars>>

(* testConnection(), up to the await of fetch *)
ClientTestConnection ==
    /\ call.phase # "pending"
    /\ call' = PendingCall("testConnection", requestInit(client, AuthEndpoint, "GET", NoBody))
    /\ UNCHANGED <<client, envVars, refineCall, appVars>>

(* the rest of the call, once fetch has settled with out *)
ClientSettled(out) ==
    LET res == requestResult(out)
    IN  call' = [call EXCEPT !.phase = "settled", !.out = out, !.res = res,
                    !.value = IF res.tag = "return" /\ call.op = "fetchChannels"
                              THEN fetchChannelsValue(res.data) ELSE <<>>]

(* fetch rejects *)
ClientFetchRaises ==
    /\ call.phase = "pending"
    /\ \E out \in Exceptions : ClientSettled(out)
    /\ UNCHANGED <<client, envVars, refineCall, appVars>>

(* fetch resolves with a response *)
ClientFetchResponds ==
    /\ call.phase = "pending"
    /\ \E out \in Responses : ClientSettled(out)
    /\ UNCHANGED <<client, envVars, refineCall, appVars>>

NextClient ==
    \/ ClientConstruct
    \/ ClientFetchChannels
    \/ ClientSendMessage
    \/ ClientTestConnection
    \/ ClientFetchRaises
    \/ ClientFetchResponds

SpecClient == InitClient /\ [][NextClient]_vars

(***************************************************************************)
(* Properties of SlackService, checked under SpecClient                    *)
(***************************************************************************)
Settled == call.phase = "settled"

(* C1 as stated: whenever the transport raises an exception of any kind, the
   call fails as TransportBlocked and never as AuthError. *)
C1_AnyExceptionIsTransportBlocked ==
    (Settled /\ call.out.kind = "raise") => Classify(call.res) = "TransportBlocked"

(* C1 amended: whenever the transport raises a TypeError, the call fails as
   TransportBlocked and never as AuthError; an exception of any other type is
   rethrown unchanged, with its own type and message. *)
C1_TypeErrorIsTransportBlocked ==
    (Settled /\ call.out.kind = "raise") =>
        /\ call.res.tag = "throw"
        /\ call.out.etype = "TypeError" => Classify(call.res) = "TransportBlocked"
        /\ call.out.etype # "TypeError" =>
              call.res = Thrown(call.out.etype, call.out.message)

C1_Witness ==
    /\ Settled
    /\ call.op = "sendMessage"
    /\ call.out = Raised("TypeError", "Failed to fetch")
    /\ call.res.message = "CORS_ERROR"

(* C2: whenever the response has a non-success status, the call fails as
   AuthError with a message that embeds the numeric status code, whatever the
   body holds, and never as TransportBlocked. *)
C2_BadStatusIsAuthError ==
    (Settled /\ call.out.kind = "response" /\ ~ResponseOk(call.out.status)) =>
        /\ call.res.tag = "throw"
        /\ call.res.message = "HTTP_" \o ToString(call.out.status)
        /\ Classify(call.res) = "AuthError"

C2_Witness ==
    /\ Settled
    /\ call.op = "testConnection"
    /\ call.out.status = 401
    /\ call.out.payload = Payload("false", "CORS_ERROR", <<>>)
    /\ call.res.message = "HTTP_401"

(* C3 as stated: with a success status and a decoded payload whose ok is false,
   the call fails as AuthError with the payload's error string as message when
   the field is present and the fixed fallback when it is absent; with ok true
   the payload is returned. *)
C3_ApiRejectionIsAuthError ==
    (Settled /\ call.out.kind = "response" /\ ResponseOk(call.out.status)
             /\ call.out.payload.decode = "object") =>
        /\ call.out.payload.ok = "false" =>
              /\ Classify(call.res) = "AuthError"
              /\ call.res.message = IF call.out.payload.error # NULL
                                    THEN call.out.payload.error
                                    ELSE "slack_api_error"
        /\ call.out.payload.ok = "true" => call.res = Returned(call.out.payload)

(* the canonical upstream URL of each operation, written out *)
CanonicalUrl(op) ==
    CASE op = "fetchChannels" ->
            "https://slack.com/api/conversations.list?types=public_channel,private_channel&limit=100"
      [] op = "sendMessage" -> "https://slack.com/api/chat.postMessage"
      [] op = "testConnection" -> "https://slack.com/api/auth.test"

(* C5: the URL handed to the transport is the canonical URL when the client
   has no proxy prefix, and the prefix followed by the whole canonical URL when
   it has one. *)
C5_UrlIsPrefixPlusCanonical ==
    call.phase # "idle" =>
        call.req.url = IF client.proxyUrl = NULL
                       THEN CanonicalUrl(call.op)
                       ELSE client.proxyUrl \o CanonicalUrl(call.op)

C5_Witness ==
    /\ call.phase = "pending"
    /\ call.op = "fetchChannels"
    /\ client.proxyUrl = "https://corsproxy.io/?"
    /\ call.req.url =
         "https://corsproxy.io/?https://slack.com/api/conversations.list?types=public_channel,private_channel&limit=100"

(***************************************************************************)
(* SpecRefine: one GeminiService, called from outside, over every          *)
(* generation outcome                                                      *)
(***************************************************************************)
RefineTexts == {"", "hello", "hi \"there\""}
GenOutcomes == {GenRaised, GenText(NULL), GenText(""), GenText("Hello."), GenText("\"Hello.\"")}

InitRefine ==
    /\ InitEnv
    /\ refineCall = IdleRefine
    /\ Mount(1, <<>>)
    /\ client = SlackService(<<>>, NULL)
    /\ call = IdleCall

(* refineMessage(message, tone) up to its first await, or to its early return *)
RefineCall ==
    /\ refineCall.phase # "pending"
    /\ \E text \in RefineTexts, tone \in Tones :
          LET b == refineMessageBegin(geminiVersion, apiKey, text, tone)
          IN  refineCall' =
                [phase |-> IF b.done THEN "settled" ELSE "pending",
                 message |-> text, tone |-> tone, req |-> b.req,
                 warned |-> b.warned, gen |-> [kind |-> "none", text |-> NULL],
                 res |-> b.res]
    /\ UNCHANGED <<clientVars, envVars, appVars>>

RefineSettled(gen) ==
    refineCall' = [refineCall EXCEPT !.phase = "settled", !.gen = gen,
                      !.res = refineMessageEnd(geminiVersion, refineCall.message, gen)]

(* generateContent resolves *)
RefineGenReturns ==
    /\ refineCall.phase = "pending"
    /\ \E gen \in GenOutcomes \ {GenRaised} : RefineSettled(gen)
    /\ UNCHANGED <<clientVars, envVars, appVars>>

(* generateContent rejects *)
RefineGenRaises ==
    /\ refineCall.phase = "pending"
    /\ RefineSettled(GenRaised)
    /\ UNCHANGED <<clientVars, envVars, appVars>>

NextRefine ==
    \/ RefineCall
    \/ RefineGenReturns
    \/ RefineGenRaises

SpecRefine == InitRefine /\ [][NextRefine]_vars

(* C6: refineMessage never raises: it returns a string for every text and tone,
   and when the key is unset, the generation call throws or the generated text
   is empty, the string returned is the text passed in. *)
C6_RefineNeverRaises ==
    refineCall.phase = "settled" =>
        /\ refineCall.res.tag = "return"
        /\ ( \/ ~Truthy(apiKey)
             \/ refineCall.gen.kind = "raise"
             \/ (refineCall.gen.kind = "text" /\ ~Truthy(refineCall.gen.text)) )
           => refineCall.res.text = refineCall.message

(* C7: with no access key configured, refineMessage issues no generation request
   and ends by returning the text passed in. *)
C7_NoKeyNoRequest ==
    (~Truthy(apiKey) /\ refineCall.phase # "idle") =>
        /\ refineCall.req = <<>>
        /\ refineCall.phase = "settled"
        /\ refineCall.res = RefReturned(refineCall.message)

(***************************************************************************)
(* Properties of the session handlers, checked under SpecSession           *)
(***************************************************************************)
(* C4 as stated: an outcome is shown as a CORS block only when the transport
   raised without a response: no continuation of a verification or of a channel
   refresh that settles on a response that did arrive sets errorType to CORS. *)
C4_ArrivedResponseNeverCors ==
    [][\A i \in 1..Len(inflight), out \in AppOutcomes :
          (out.kind = "response" /\ (VerifyFailsAt(i, out) \/ ListFailsAt(i, out)))
              => errorType' # "CORS"]_vars

(* C8 as stated, for a connected session: the active credential and the active
   proxy mode are those of the last successful verification, which is what the
   store holds while the session lasts (handleConnect writes both on success and
   nothing else writes them). *)
C8_ActiveIsLastVerified ==
    token # <<>> =>
        /\ getItem(storage, TOKEN_KEY) = <<token>>
        /\ getItem(storage, PROXY_KEY) = <<BoolStr(useProxy)>>

(* the bearer token and the proxy mode a verification request went out with *)
VerifiedToken(r) == r.req.auth.token
VerifiedProxy(r) == r.req.url = DEFAULT_PROXY \o SLACK_API_BASE \o "/" \o AuthEndpoint

(* a response that request() returns from; the continuation of handleConnect
   reads nothing of the returned payload, so one stands for all *)
AcceptedResponse == Responded(200, Payload("true", NULL, <<>>))

(* C10: when a verification succeeds, the persisted credential becomes the
   token of that verification, free of surrounding whitespace, and the persisted
   proxy flag the proxy mode the verification went out with; the active
   credential and proxy mode take the same values; and every step that writes a
   persisted credential is the success of a verification of that credential. *)
C10_VerificationPersists ==
    [][ /\ \A i \in 1..Len(inflight) :
              VerifySucceedsAt(i, AcceptedResponse) =>
                 /\ getItem(storage', TOKEN_KEY) = <<VerifiedToken(inflight[i])>>
                 /\ Trim(VerifiedToken(inflight[i])) = getItem(storage', TOKEN_KEY)[1]
                 /\ getItem(storage', TOKEN_KEY) # << <<>> >>
                 /\ getItem(storage', PROXY_KEY) = <<BoolStr(VerifiedProxy(inflight[i]))>>
                 /\ token' = getItem(storage', TOKEN_KEY)[1]
                 /\ useProxy' = VerifiedProxy(inflight[i])
        /\ (getItem(storage', TOKEN_KEY) # getItem(storage, TOKEN_KEY)
               /\ getItem(storage', TOKEN_KEY) # <<>>)
              => \E i \in 1..Len(inflight) :
                    /\ VerifySucceedsAt(i, AcceptedResponse)
                    /\ getItem(storage', TOKEN_KEY) = <<VerifiedToken(inflight[i])>>
      ]_vars

(* a token typed with surrounding whitespace was verified through the proxy:
   the store and the active session hold the trimmed token and the proxy mode *)
C10_Witness ==
    /\ getItem(storage, TOKEN_KEY) = <<TokA>>
    /\ getItem(storage, PROXY_KEY) = <<BoolStr(TRUE)>>
    /\ token = TokA
    /\ useProxy
    /\ ~isVerifying

(***************************************************************************)
(* Properties of the main view, checked under SpecCompose                  *)
(***************************************************************************)
(* C9: immediately after logout, from any state, the persisted credential and
   the persisted proxy flag are absent, the active credential is empty, the
   channel list is empty and no channel is selected. *)
C9_LogoutClears ==
    [][ClickLogout =>
          /\ getItem(storage', TOKEN_KEY) = <<>>
          /\ getItem(storage', PROXY_KEY) = <<>>
          /\ token' = <<>>
          /\ channels' = <<>>
          /\ selectedChannel' = <<>>]_vars

(* logged out while a send and a refinement were still awaited *)
C9_Witness ==
    /\ token = <<>>
    /\ ~hasItem(storage, TOKEN_KEY)
    /\ ~hasItem(storage, PROXY_KEY)
    /\ channels = <<>>
    /\ selectedChannel = <<>>
    /\ \E i \in 1..Len(inflight) : inflight[i].op = "send"
    /\ \E i \in 1..Len(inflight) : inflight[i].op = "refine"

(***************************************************************************)
(* Properties of a failed connect, checked under SpecSession               *)
(***************************************************************************)
(* the error kind the controller shows for a failure class of the client *)
KindOf(class) == IF class = "TransportBlocked" THEN "CORS" ELSE "AUTH"

(* C11: a verification that fails leaves the persisted credential, the persisted
   proxy flag, the active credential, the active proxy mode and the channel list
   as they were, and records an error (a message is shown) whose kind is the one
   of the failure class: CORS for TransportBlocked, AUTH for AuthError. *)
C11_FailedConnectChangesNothing ==
    [][\A i \in 1..Len(inflight) : inflight[i].op = "verify" => \A out \in AppOutcomes :
          VerifyFailsAt(i, out) =>
             /\ UNCHANGED <<storage, token, useProxy, channels>>
             /\ errorType' = KindOf(Classify(requestResult(out)))
             /\ Truthy(errorMessage')]_vars

(* a connected session over which a later verification (Save Sync in the
   settings dialog) failed with an AuthError: the session is as it was *)
C11_Witness ==
    /\ token = TokA
    /\ getItem(storage, TOKEN_KEY) = <<TokA>>
    /\ channels # <<>>
    /\ errorType = "AUTH"
    /\ errorMessage \in {"Slack API Error: HTTP_401", "Slack Error: HTTP_401"}
    /\ ~isVerifying

(* C12 as stated: the step in which a verification succeeds dispatches a
   list-channels request carrying the verified credential and proxy setting,
   and that request is then awaited. *)
C12_SuccessDispatchesList ==
    [][\A i \in 1..Len(inflight) :
          VerifySucceedsAt(i, AcceptedResponse) =>
             /\ Len(inflight') = Len(inflight)
             /\ inflight'[Len(inflight')] =
                   ListReq(SlackService(inflight[i].cleanToken,
                              IF inflight[i].activeProxy THEN DEFAULT_PROXY ELSE NULL))]_vars

(***************************************************************************)
(* Properties of refresh (SpecCompose) and of send (SpecSend)                *)
(***************************************************************************)
(* C13: a refresh that succeeds replaces the channel list by the channels of
   that response, the empty list when the field is absent; a refresh that fails
   leaves the channel list and the selected channel as they were, sets the
   error status and shows a message, the failure's own when it is an AuthError. *)
C13_RefreshReplacesOrKeeps ==
    [][\A i \in 1..Len(inflight) : inflight[i].op = "list" => \A out \in AppOutcomes :
          /\ ListSucceedsAt(i, out) =>
                channels' = IF out.payload.channels = <<>> THEN <<>>
                            ELSE out.payload.channels[1]
          /\ ListFailsAt(i, out) =>
                /\ UNCHANGED <<channels, selectedChannel>>
                /\ status' = "ERROR"
                /\ Truthy(errorMessage')
                /\ Classify(requestResult(out)) = "AuthError"
                      => errorMessage' = requestResult(out).message]_vars

(* a refresh failed with an AuthError over a session with channels and a
   selection: both are still there *)
C13_Witness ==
    /\ channels = <<Chan1, Chan2>>
    /\ selectedChannel # <<>>
    /\ status = "ERROR"
    /\ errorType = "AUTH"
    /\ errorMessage = "HTTP_401"
    /\ \A i \in 1..Len(inflight) : inflight[i].op # "send"

(* C14: a send that succeeds clears the message field and leaves the channel
   list and the selected channel unchanged; a send that fails leaves the message
   text, the channel list and the selection unchanged and sets the error status. *)
C14_SendFrame ==
    [][\A i \in 1..Len(inflight) : inflight[i].op = "send" => \A out \in AppOutcomes :
          /\ SendSucceedsAt(i, out) =>
                /\ message' = ""
                /\ UNCHANGED <<channels, selectedChannel>>
          /\ SendFailsAt(i, out) =>
                /\ UNCHANGED <<message, channels, selectedChannel>>
                /\ status' = "ERROR"]_vars

(* "hello" was sent to a selected channel and delivered: the field is empty,
   the list and the selection are still there *)
C14_Witness ==
    /\ successToast
    /\ message = ""
    /\ status = "SUCCESS"
    /\ channels = <<Chan1, Chan2>>
    /\ selectedChannel # <<>>
    /\ inflight = <<>>

(* C15: the delivered signal is visible during the whole window of every
   successful send: while the timer some send started has time left to run
   (fewer than ToastDuration units have passed since that send completed), the
   signal is shown, also when an earlier send completed less than ToastDuration
   units before. *)
C15_ToastVisibleForWindow ==
    (\E t \in timers : t > 0) => successToast

(* C16: every failure of a connect, a refresh or a send records the error kind
   of its failure class (CORS for TransportBlocked, AUTH for AuthError) together
   with its message, so a message is never shown with no kind or with the kind
   an earlier failure left behind. *)
C16_FailureKindRecorded ==
    [][\A i \in 1..Len(inflight), out \in AppOutcomes :
          (VerifyFailsAt(i, out) \/ ListFailsAt(i, out) \/ SendFailsAt(i, out)) =>
             /\ Truthy(errorMessage')
             /\ errorType' = KindOf(Classify(requestResult(out)))]_vars

(***************************************************************************)
(* Properties of the retry through the proxy                               *)
(***************************************************************************)
(* the amber button of an error block is rendered: errorMessage &&
   errorType === 'CORS', in the authenticate view of both versions and in the
   banner of the main view of version 2 *)
RetryWithProxyOffered ==
    /\ Truthy(errorMessage)
    /\ errorType = "CORS"
    /\ AuthView \/ (appVersion = 2 /\ MainView)

(* C17: after a verification, a refresh or a send fails as TransportBlocked
   the retry through the proxy is offered; and the retry re-issues the
   operation that failed with its arguments and the proxy on: when the message
   shown is the one of a blocked refresh, the request it issues is the
   list-channels request of the active credential through the proxy. *)
C17_RetryWithProxy ==
    [][/\ \A i \in 1..Len(inflight), out \in AppOutcomes :
             ( /\ VerifyFailsAt(i, out) \/ ListFailsAt(i, out) \/ SendFailsAt(i, out)
               /\ Classify(requestResult(out)) = "TransportBlocked" )
                => RetryWithProxyOffered'
       /\ ( /\ ClickProxyBypass \/ ClickEnableProxy
            /\ errorMessage \in
                 {"Connection blocked by Browser Security (CORS). This is common for Slack on the web.",
                  "Request blocked by browser security (CORS). Enable the proxy below to bypass."} )
                => /\ Len(inflight') = Len(inflight) + 1
                   /\ inflight'[Len(inflight')] = ListReq(SlackService(token, DEFAULT_PROXY))]_vars

(* the request the amber button of the authenticate view issues when clicked:
   handleConnect(inputToken, true) *)
RetryRequest ==
    VerifyReq(handleConnectCleanToken(inputToken),
              handleConnectActiveProxy(<<TRUE>>, useProxy))

(* C18: logged out, with the credential still in the token field: when its
   verification, sent without the proxy, fails with a transport exception, the
   error kind is CORS, no credential is persisted and the retry is offered; the
   request of that retry is the failed request with the proxy prefix put before
   its URL, for the same credential; clicking the retry issues that request;
   and when a verification through the proxy succeeds, the controller is
   connected with that credential and the persisted proxy flag is "true". *)
C18_BlockedConnectThenProxyRetry ==
    [][\A i \in 1..Len(inflight) :
          /\ ( /\ VerifyFailsAt(i, Raised("TypeError", "Failed to fetch"))
               /\ AuthView
               /\ ~inflight[i].activeProxy
               /\ handleConnectCleanToken(inputToken) = inflight[i].cleanToken )
                => /\ errorType' = "CORS"
                   /\ getItem(storage', TOKEN_KEY) = <<>>
                   /\ RetryWithProxyOffered'
                   /\ RetryRequest'.req =
                         [inflight[i].req EXCEPT !.url = DEFAULT_PROXY \o inflight[i].req.url]
          /\ (ClickProxyBypass /\ handleConnectCleanToken(inputToken) # <<>>)
                => inflight' = Append(inflight, RetryRequest)
          /\ (VerifySucceedsAt(i, AcceptedResponse) /\ AuthView /\ inflight[i].activeProxy)
                => /\ token' = inflight[i].cleanToken
                   /\ token' # <<>>
                   /\ useProxy'
                   /\ getItem(storage', TOKEN_KEY) = <<token'>>
                   /\ getItem(storage', PROXY_KEY) = <<BoolStr(TRUE)>>]_vars

(* logged out with the proxy off and nothing persisted, the error of the
   blocked verification cleared by the retry, whose request through the proxy
   is the one in flight *)
C18_Witness ==
    /\ AuthView
    /\ ~useProxy
    /\ getItem(storage, TOKEN_KEY) = <<>>
    /\ isVerifying
    /\ errorType = NULL
    /\ inflight = <<RetryRequest>>
    /\ VerifiedProxy(inflight[1])
    /\ VerifiedToken(inflight[1]) = TokA

(***************************************************************************)
(* Properties of the token scan, checked under SpecSession                 *)
(***************************************************************************)
(* C19: the scan of the store returns, in the order of the store, exactly one
   pair of key and matched substring for every entry whose value contains the
   token shape anywhere and whose match is not the active credential, and
   nothing else. *)
C19_ScanFindsEveryShape ==
    LET found == scanForTokens(appVersion, storage, token)
        hits == {i \in 1..Len(storage) :
                    /\ slackPatternMatch(storage[i].value) # <<>>
                    /\ slackPatternMatch(storage[i].value)[1] # token}
    IN  /\ Len(found) = Cardinality(hits)
        /\ \A k \in 1..Len(found) :
              \E i \in hits :
                 /\ Cardinality({j \in hits : j <= i}) = k
                 /\ found[k] = [key |-> storage[i].key,
                                value |-> slackPatternMatch(storage[i].value)[1]]

(* C20: a scan only sets the list of discovered credentials, and entries with
   an empty value do not make it fail or show up in the list. A step that
   changes the list while the credential stays (the periodic poll) changes
   nothing else and leaves the scan of the store as it is; a step that changes
   the credential leaves the scan of the store that step left; and no
   discovered pair ever has an empty key or an empty value. *)
C20_ScanOnlySetsDiscovered ==
    [][/\ (discoveredTokens' # discoveredTokens /\ token' = token) =>
             /\ UNCHANGED <<storage, token, useProxy, inputToken, channels, selectedChannel,
                            message, status, errorMessage, errorType, isVerifying,
                            showSettings, slackServiceRef, inflight>>
             /\ discoveredTokens' = scanForTokens(appVersion, storage, token)
       /\ token' # token =>
             discoveredTokens' = scanForTokens(appVersion, storage', token')
       /\ \A k \in 1..Len(discoveredTokens') :
             discoveredTokens'[k].key # "" /\ discoveredTokens'[k].value # <<>>]_vars

(* first variant, logged out: another application emptied its entry and the
   poll dropped that entry from the list *)
C20_Witness ==
    /\ appVersion = 1
    /\ token = <<>>
    /\ getItem(storage, "legacy") = << <<>> >>
    /\ discoveredTokens = <<[key |-> "other_app", value |-> TokA]>>

(***************************************************************************)
(* Properties of requests racing with the session, checked under SpecRace  *)
(***************************************************************************)
(* C21: no request is retried.  A step adds at most one request, and only a
   click of the user does (connect, retry through the proxy, refresh, send, or
   Return, which refreshes); a verification, refresh or send that fails is
   taken off the awaited requests and nothing is issued in its place; a
   verification that succeeds is replaced by at most the one implicit refresh. *)
C21_NoAutomaticRetry ==
    [][/\ Len(inflight') <= Len(inflight) + 1
       /\ Len(inflight') = Len(inflight) + 1 =>
             /\ SubSeq(inflight', 1, Len(inflight)) = inflight
             /\ \/ ClickConnect \/ ClickDiscovered \/ ClickProxyBypass \/ ClickEnableProxy
                \/ ClickRefresh \/ ClickSend \/ CloseSettings
       /\ \A i \in 1..Len(inflight) :
             /\ \A out \in AppOutcomes :
                   (VerifyFailsAt(i, out) \/ ListFailsAt(i, out) \/ SendFailsAt(i, out))
                      => inflight' = RemoveAt(inflight, i)
             /\ VerifySucceedsAt(i, AcceptedResponse) =>
                   \/ inflight' = RemoveAt(inflight, i)
                   \/ inflight' = Append(RemoveAt(inflight, i), ListReq(slackServiceRef'[1]))]_vars

(* connected, the refresh failed on the credential, and nothing is awaited *)
C21_Witness ==
    /\ token # <<>>
    /\ status = "ERROR"
    /\ errorType = "AUTH"
    /\ errorMessage = "HTTP_401"
    /\ inflight = <<>>

(* C22: while two or more refreshes are awaited, whichever of them resolves
   sets the state by its own outcome, whatever its place in the order of
   dispatch: a success makes the channel list its payload, the status SUCCESS
   and clears the error; a failure keeps the list and makes the status ERROR
   with the error of that failure.  So after both have settled the list is the
   payload of the last success and status and error are those of the last to
   resolve. *)
C22_LastResolvedRefreshWins ==
    [][\A i, j \in 1..Len(inflight) :
          (i # j /\ inflight[i].op = "list" /\ inflight[j].op = "list") =>
             \A out \in AppOutcomes :
                /\ ListSucceedsAt(i, out) =>
                      /\ channels' = IF out.payload.channels = <<>> THEN <<>>
                                     ELSE out.payload.channels[1]
                      /\ status' = "SUCCESS"
                      /\ errorMessage' = NULL
                      /\ errorType' = NULL
                /\ ListFailsAt(i, out) =>
                      /\ channels' = channels
                      /\ status' = "ERROR"
                      /\ errorType' = KindOf(Classify(requestResult(out)))
                      /\ Truthy(errorMessage')]_vars

(* a refresh resolved with channels while another refresh, the only request
   still awaited, was in flight: no send has completed, so the status SUCCESS
   is the one the resolved refresh set after the other was dispatched *)
C22_Witness ==
    /\ Len(inflight) = 1
    /\ inflight[1].op = "list"
    /\ status = "SUCCESS"
    /\ timers = {}
    /\ channels = <<Chan1, Chan2>>

(***************************************************************************)
(* Properties of the message field, checked under SpecDraft                *)
(***************************************************************************)
(* C23: a refinement never puts the controller in an error state: neither the
   click on a tone nor the completion of the request changes the status, the
   error message, the error kind, the channel list or the selection; and the
   completion replaces the message text by the text refineMessage returned, the
   generated text or, from the GeminiService that catches a rejection, the
   text it was called with.  Whichever awaited refinement completes writes its
   own text, so the one that completes last leaves the text. *)
C23_RefineOnlyReplacesText ==
    [][/\ ClickRefine => UNCHANGED <<status, errorMessage, errorType, channels, selectedChannel>>
       /\ \A i \in 1..Len(inflight), gen \in AppGenOutcomes :
             RefineSettlesAt(i, gen) =>
                /\ UNCHANGED <<status, errorMessage, errorType, channels, selectedChannel>>
                /\ (gen.kind = "text" /\ Truthy(gen.text)) => message' = gen.text
                /\ (gen.kind = "raise" /\ geminiVersion = "part_001")
                      => message' = inflight[i].text]_vars

(* the generated text is in the field, nothing is awaited and no error is shown *)
C23_Witness ==
    /\ message = "Hello."
    /\ ~isRefining
    /\ inflight = <<>>
    /\ status = "SUCCESS"
    /\ errorMessage = NULL
    /\ selectedChannel # <<>>

(***************************************************************************)
(* Properties of logout racing with awaited requests                       *)
(***************************************************************************)
(* C24: logout is final until the user connects again.  Every verification
   that resolves with success persists its credential and makes it the active
   one, so a verification awaited when logout happens would log the session
   back in: when logout has run, no verification is awaited any more. *)
C24_LogoutLeavesNoVerification ==
    [][ClickLogout => \A i \in 1..Len(inflight') : inflight'[i].op # "verify"]_vars

(* C25: while no credential is active the channel list is empty, also after a
   refresh that was awaited when logout happened has resolved. *)
C25_LoggedOutNoChannels ==
    token = <<>> => channels = <<>>

(* C26: the channel list shown with an active credential comes from a
   list-channels request made with that credential and the active proxy mode.
   A list response that fills the list while a credential is active answers
   the request of the active service; and a step that replaces the active
   credential or proxy mode by another leaves no channels of the one before. *)
C26_ChannelsOfActiveCredential ==
    [][/\ \A i \in 1..Len(inflight), out \in AppOutcomes :
             (token # <<>> /\ ListSucceedsAt(i, out) /\ channels' # <<>>) =>
                inflight[i] =
                   ListReq(SlackService(token, IF useProxy THEN DEFAULT_PROXY ELSE NULL))
       /\ (token # <<>> /\ token' # <<>> /\ (token' # token \/ useProxy' # useProxy))
             => channels' = <<>>]_vars

(* C27: the selected channel is none or one of the channels of the list. *)
C27_SelectionInList ==
    selectedChannel = <<>> \/ \E i \in 1..Len(channels) : channels[i] = selectedChannel[1]

(* C28: the send button is the only way to send and is disabled while the
   status is LOADING, so at most one send request is awaited at any time. *)
C28_OneSendInFlight ==
    Cardinality({i \in 1..Len(inflight) : inflight[i].op = "send"}) <= 1

(* C29: an empty message field stays empty until the user edits it: after a
   send has cleared the field, only typing puts text into it, and no
   refinement that completes later does. *)
C29_EmptyFieldStaysEmpty ==
    [][(message = "" /\ message' # "") => TypeMessage]_vars

(* C30: a list-channels or send request is issued only while a credential is
   active and carries the credential active when it is issued, the new one
   when the step that issues it is the one that makes it active; and a send
   request is issued only with a channel selected and a non-empty message,
   which are the channel and the text it carries. *)
C30_RequestsCarryActiveCredential ==
    [][(Len(inflight') >= Len(inflight) /\ inflight' # inflight) =>
          LET r == inflight'[Len(inflight')]
          IN  /\ r.op \in {"list", "send"} =>
                    /\ token' # <<>>
                    /\ r.req.auth = [scheme |-> "Bearer", token |-> token']
              /\ r.op = "send" =>
                    /\ selectedChannel # <<>>
                    /\ message # ""
                    /\ r.req.body = [channel |-> selectedChannel[1].id, text |-> message]]_vars

(* the second credential is active and a send that carries it is awaited *)
C30_Witness ==
    /\ token = TokB
    /\ \E i \in 1..Len(inflight) :
          /\ inflight[i].op = "send"
          /\ VerifiedToken(inflight[i]) = TokB
          /\ inflight[i].req.body.text = "hello"

====
